---------------------------- MODULE Spec2Model ----------------------------
(***************************************************************************)
(* SortedStorages (runtime/src/sorted_storages.rs): a dense, slot-indexed  *)
(* view over a caller-owned slice of SnapshotStorage containers.           *)
(*                                                                         *)
(* Slot is u64 in the program.  The model keeps the type's behaviour       *)
(* (unsigned, fixed width, Slot::MAX + 1 is not representable) at a width  *)
(* of SlotBits bits so that the extreme values of the type are reachable.  *)
(* Integer overflow is build dependent in Rust: with overflow checks (the  *)
(* debug profile) the operation panics, without them (the release          *)
(* profile) it wraps.  overflow_checks is the profile of the build that    *)
(* runs the call.                                                          *)
(*                                                                         *)
(* A reference &source[i] is modelled by the index i: two containers with  *)
(* equal contents at different positions are different references.         *)
(* Option<T> is modelled as a set: None is {}, Some(x) is {x}.             *)
(***************************************************************************)
EXTENDS Integers, Sequences, FiniteSets, TLC

\* ---------------------------------------------------------------- bounds
\* width of the Slot type in the model
SlotBits == 2
\* longest source / slots slice handed to a constructor
MaxLen == 3
\* most entries in one SnapshotStorage
MaxStorageLen == 2

\* ------------------------------------------------------- the Slot type
SlotModulus == 2 ^ SlotBits
SlotMAX == SlotModulus - 1
SlotMIN == 0
Slots == SlotMIN .. SlotMAX

\* a + b does not fit the Slot type
AddOverflows(a, b) == a + b > SlotMAX
\* a + b as the wrapping build computes it
WrappingAdd(a, b) == (a + b) % SlotModulus
\* a - b does not fit the Slot type
SubOverflows(a, b) == a < b
\* a - b as the wrapping build computes it
WrappingSub(a, b) == (a - b + SlotModulus) % SlotModulus

cmp_min(a, b) == IF a <= b THEN a ELSE b
cmp_max(a, b) == IF a >= b THEN a ELSE b

None == {}
Some(x) == {x}

NoPanic == "none"
AddOverflowMsg == "attempt to add with overflow"
SubOverflowMsg == "attempt to subtract with overflow"
IndexMsg == "index out of bounds"
EmptyContainerMsg == "SnapshotStorage.is_empty()"
DuplicateSlotMsg == "slots are not unique"
LengthMismatchMsg == "source and slots are different lengths"

\* Range<Slot>
Range(start, end) == [start |-> start, end |-> end]
\* Range::default()
RangeDefault == Range(SlotMIN, SlotMIN)
\* Range::contains
RangeContains(r, slot) == r.start <= slot /\ slot < r.end

\* a constructor that unwound: no SortedStorages value exists
Panicked(msg) ==
    [panic |-> msg, range |-> RangeDefault, storages |-> <<>>, slot_count |-> 0]

\* ------------------------------------------------------ new_with_slots
\* slots.iter().for_each(|slot| { min = ..; max = .. }), from element i on
RECURSIVE MinMaxPass(_, _, _, _, _)
MinMaxPass(slots, i, min, max, checks) ==
    IF i > Len(slots)
    THEN [panic |-> NoPanic, min |-> min, max |-> max]
    ELSE LET slot == slots[i] IN
         IF checks /\ AddOverflows(slot, 1)
         THEN [panic |-> AddOverflowMsg, min |-> min, max |-> max]
         ELSE MinMaxPass(slots, i + 1, cmp_min(slot, min),
                         cmp_max(WrappingAdd(slot, 1), max), checks)

\* source.iter().zip(slots).for_each(..), from pair i on; n is the length
\* of the zip
RECURSIVE Populate(_, _, _, _, _, _)
Populate(table, n, slots, i, min, checks) ==
    IF i > n
    THEN [panic |-> NoPanic, storages |-> table]
    ELSE IF checks /\ SubOverflows(slots[i], min)
    THEN [panic |-> SubOverflowMsg, storages |-> table]
    ELSE LET index == WrappingSub(slots[i], min) IN
         IF index >= Len(table)
         THEN [panic |-> IndexMsg, storages |-> table]
         ELSE IF table[index + 1] # None
         THEN [panic |-> DuplicateSlotMsg, storages |-> table]
         ELSE Populate([table EXCEPT ![index + 1] = Some(i)],
                       n, slots, i + 1, min, checks)

\* a slip: the empty input is not told apart from the others
no_empty_case(min, max) == FALSE
\* if min > max: no slot was seen
is_empty_input(min, max) == min > max

\* a slip: one entry too many, as for an inclusive range
vec_none_inclusive(len) == [k \in 1 .. len + 1 |-> None]
\* vec![None; len as usize]
vec_none(len) == [k \in 1 .. len |-> None]

\* the body of new_with_slots after the length assertion
BuildView(source, slots, checks) ==
    LET mm == MinMaxPass(slots, 1, SlotMAX, SlotMIN, checks) IN
    IF mm.panic # NoPanic THEN Panicked(mm.panic)
    ELSE IF is_empty_input(mm.min, mm.max)
    THEN [panic |-> NoPanic, range |-> RangeDefault, storages |-> <<>>,
          slot_count |-> Len(source)]
    ELSE LET len == mm.max - mm.min
             p == Populate(vec_none(len),
                           cmp_min(Len(source), Len(slots)),
                           slots, 1, mm.min, checks)
         IN  IF p.panic # NoPanic THEN Panicked(p.panic)
             ELSE [panic |-> NoPanic, range |-> Range(mm.min, mm.max),
                   storages |-> p.storages, slot_count |-> Len(source)]

\* a slip: the lengths are not compared, zip stops at the shorter slice
new_with_slots_unchecked_len(source, slots, checks) ==
    BuildView(source, slots, checks)

new_with_slots(source, slots, checks) ==
    IF Len(source) # Len(slots)
    THEN Panicked(LengthMismatchMsg)
    ELSE BuildView(source, slots, checks)

\* ----------------------------------------------------------------- new
\* a slip: an empty container is skipped instead of refused
RECURSIVE CollectSlots_skip_empty(_, _, _)
CollectSlots_skip_empty(source, i, acc) ==
    IF i > Len(source)
    THEN [panic |-> NoPanic, slots |-> acc]
    ELSE IF Len(source[i]) = 0
    THEN CollectSlots_skip_empty(source, i + 1, acc)
    ELSE CollectSlots_skip_empty(source, i + 1, Append(acc, Head(source[i])))

\* source.iter().map(|storages| ..).collect(), from container i on
RECURSIVE CollectSlots(_, _, _)
CollectSlots(source, i, acc) ==
    IF i > Len(source)
    THEN [panic |-> NoPanic, slots |-> acc]
    ELSE IF Len(source[i]) = 0
    THEN [panic |-> EmptyContainerMsg, slots |-> acc]
    ELSE CollectSlots(source, i + 1, Append(acc, Head(source[i])))

new(source, checks) ==
    LET c == CollectSlots(source, 1, <<>>) IN
    IF c.panic # NoPanic
    THEN [out |-> Panicked(c.panic), slots |-> c.slots]
    ELSE [out |-> new_with_slots(source, c.slots, checks), slots |-> c.slots]

\* ------------------------------------------------------------- queries
\* a slip: the table is indexed without the range test
get_no_range_check(self, slot) ==
    LET index == WrappingSub(slot, self.range.start) IN
    IF index >= Len(self.storages)
    THEN [panic |-> IndexMsg, ret |-> None]
    ELSE [panic |-> NoPanic, ret |-> self.storages[index + 1]]

get(self, slot) ==
    IF ~RangeContains(self.range, slot)
    THEN [panic |-> NoPanic, ret |-> None]
    ELSE LET index == WrappingSub(slot, self.range.start) IN
         IF index >= Len(self.storages)
         THEN [panic |-> IndexMsg, ret |-> None]
         ELSE [panic |-> NoPanic, ret |-> self.storages[index + 1]]

range_width(self, checks) ==
    IF checks /\ SubOverflows(self.range.end, self.range.start)
    THEN [panic |-> SubOverflowMsg, ret |-> SlotMIN]
    ELSE [panic |-> NoPanic,
          ret |-> WrappingSub(self.range.end, self.range.start)]

range_of(self) == [panic |-> NoPanic, ret |-> self.range]

slot_count_of(self) == [panic |-> NoPanic, ret |-> self.slot_count]

\* ------------------------------------------------------------- inputs
RECURSIVE SeqsUpTo(_, _)
SeqsUpTo(S, n) ==
    IF n = 0 THEN {<<>>}
    ELSE LET shorter == SeqsUpTo(S, n - 1) IN
         shorter \cup {Append(q, x) : q \in {r \in shorter : Len(r) = n - 1},
                                      x \in S}

\* a SnapshotStorage is the sequence of the slots of its entries; the
\* entries after the first carry the following slot numbers, so that the
\* first entry is told apart from the others.  The containers tried are
\* the empty one and those of MaxStorageLen entries
Storage(first, n) == [j \in 1 .. n |-> (first + j - 1) % SlotModulus]
StorageInputs == {Storage(s, n) : s \in Slots, n \in {0, MaxStorageLen}}
\* containers handed to new_with_slots, whose contents it never reads:
\* Vec::new(), as in the tests
OpaqueStorages == {<<>>}

VARIABLES pc, ctor, source, slots, overflow_checks,
          range, storages, slot_count, panic_msg, last_call

vars == <<pc, ctor, source, slots, overflow_checks,
          range, storages, slot_count, panic_msg, last_call>>

self == [range |-> range, storages |-> storages, slot_count |-> slot_count]

NoCall == [op |-> "none", arg |-> SlotMIN, panic |-> NoPanic, ret |-> None]

Init ==
    /\ pc = "start"
    /\ ctor = "none"
    /\ source = <<>>
    /\ slots = <<>>
    /\ overflow_checks = FALSE
    /\ range = RangeDefault
    /\ storages = <<>>
    /\ slot_count = 0
    /\ panic_msg = NoPanic
    /\ last_call = NoCall

\* the caller receives the constructor's value, or the unwinding
Finish(out) ==
    /\ pc' = IF out.panic = NoPanic THEN "constructed" ELSE "panicked"
    /\ panic_msg' = out.panic
    /\ range' = out.range
    /\ storages' = out.storages
    /\ slot_count' = out.slot_count
    /\ last_call' = NoCall

CallNewWithSlots ==
    /\ pc = "start"
    /\ \E src \in SeqsUpTo(OpaqueStorages, MaxLen),
          sl \in SeqsUpTo(Slots, MaxLen),
          oc \in BOOLEAN :
          /\ ctor' = "new_with_slots"
          /\ source' = src
          /\ slots' = sl
          /\ overflow_checks' = oc
          /\ Finish(new_with_slots(src, sl, oc))

CallNew ==
    /\ pc = "start"
    /\ \E src \in SeqsUpTo(StorageInputs, MaxLen), oc \in BOOLEAN :
          LET r == new(src, oc) IN
          /\ ctor' = "new"
          /\ source' = src
          /\ slots' = r.slots
          /\ overflow_checks' = oc
          /\ Finish(r.out)

\* a query on the constructed view: &self is shared, the fields are not
\* assigned
Query(op, arg, r) ==
    /\ last_call' = [op |-> op, arg |-> arg, panic |-> r.panic, ret |-> r.ret]
    /\ pc' = IF r.panic = NoPanic THEN pc ELSE "panicked"
    /\ panic_msg' = r.panic
    /\ UNCHANGED <<ctor, source, slots, overflow_checks,
                   range, storages, slot_count>>

\* a slip: the entry is taken out of the table (Option::take) when read
CallGet_take ==
    /\ pc = "constructed"
    /\ \E slot \in Slots :
          LET r == get(self, slot) IN
          /\ last_call' = [op |-> "get", arg |-> slot,
                           panic |-> r.panic, ret |-> r.ret]
          /\ pc' = IF r.panic = NoPanic THEN pc ELSE "panicked"
          /\ panic_msg' = r.panic
          /\ storages' = [k \in 1 .. Len(storages) |->
                            IF k = slot - range.start + 1
                            THEN None ELSE storages[k]]
          /\ UNCHANGED <<ctor, source, slots, overflow_checks,
                         range, slot_count>>

CallGet ==
    /\ pc = "constructed"
    /\ \E slot \in Slots : Query("get", slot, get(self, slot))

CallRangeWidth ==
    /\ pc = "constructed"
    /\ Query("range_width", SlotMIN, range_width(self, overflow_checks))

CallRange ==
    /\ pc = "constructed"
    /\ Query("range", SlotMIN, range_of(self))

CallSlotCount ==
    /\ pc = "constructed"
    /\ Query("slot_count", SlotMIN, slot_count_of(self))

Next ==
    \/ CallNewWithSlots
    \/ CallNew
    \/ CallGet
    \/ CallRangeWidth
    \/ CallRange
    \/ CallSlotCount

Spec == Init /\ [][Next]_vars

TypeOK ==
    /\ pc \in {"start", "constructed", "panicked"}
    /\ ctor \in {"none", "new", "new_with_slots"}
    /\ overflow_checks \in BOOLEAN
    /\ range.start \in Slots /\ range.end \in Slots
    /\ slot_count \in 0 .. MaxLen

\* ------------------------------------------------- properties of the view
\* the slots handed to the constructor, as a set
SuppliedSlots == {slots[i] : i \in 1 .. Len(slots)}
\* two positions of sl carry the same slot
HasDuplicate(sl) == \E i, j \in 1 .. Len(sl) : i < j /\ sl[i] = sl[j]
\* least and greatest element of a non-empty set of slots
MinOf(S) == CHOOSE m \in S : \A x \in S : m <= x
MaxOf(S) == CHOOSE m \in S : \A x \in S : m >= x
\* the occupied positions of the dense table
Occupied == {k \in 1 .. Len(storages) : storages[k] # None}
\* the slot of the first entry of every container
FirstSlots(src) == [i \in 1 .. Len(src) |-> src[i][1]]
\* what the constructor that was called returns for the inputs it was given
Fresh ==
    IF ctor = "new" THEN new(source, overflow_checks).out
    ELSE new_with_slots(source, slots, overflow_checks)

\* C1 (lookup soundness): on every constructed view, for every position i of
\* the input, get(slots[i]) returns without failing a present reference to
\* source[i] and to no other container.
C1_LookupSoundness ==
    pc = "constructed" =>
        \A i \in 1 .. Len(slots) :
            get(self, slots[i]) = [panic |-> NoPanic, ret |-> Some(i)]

\* C2 (lookup absence): on every constructed view get fails for no slot, and
\* returns absent for every slot that was not supplied, outside the range or
\* a hole inside it; the same holds of every get call that was made.
C2_LookupAbsence ==
    /\ pc = "constructed" =>
          \A s \in Slots :
              /\ get(self, s).panic = NoPanic
              /\ s \notin SuppliedSlots => get(self, s).ret = None
    /\ last_call.op = "get" =>
          /\ last_call.panic = NoPanic
          /\ last_call.arg \notin SuppliedSlots => last_call.ret = None

\* a get of a hole inside the range returned absent
C2_Witness ==
    /\ pc = "constructed"
    /\ last_call.op = "get"
    /\ RangeContains(range, last_call.arg)
    /\ last_call.arg \notin SuppliedSlots
    /\ last_call.ret = None

\* C3 (range correctness): a view constructed from a non-empty input with
\* pairwise distinct slots has range.start = the least supplied slot and
\* range.end = the greatest supplied slot plus one, for every slot value of
\* the Slot type.
C3_RangeCorrectness ==
    (pc = "constructed" /\ Len(slots) > 0 /\ ~HasDuplicate(slots)) =>
        /\ range.start = MinOf(SuppliedSlots)
        /\ range.end = MaxOf(SuppliedSlots) + 1

\* C4 (duplicate rejection): new_with_slots called with slices of equal
\* length in which two pairs carry the same slot fails with "slots are not
\* unique" and returns no view.
C4_DuplicateRejection ==
    (ctor = "new_with_slots" /\ Len(source) = Len(slots) /\ HasDuplicate(slots)) =>
        /\ pc = "panicked"
        /\ panic_msg = DuplicateSlotMsg

\* C5 (length mismatch rejection): new_with_slots called with slices of
\* different lengths fails with "source and slots are different lengths",
\* also when the slots repeat, and returns no view.
C5_LengthMismatch ==
    (ctor = "new_with_slots" /\ Len(source) # Len(slots)) =>
        /\ pc = "panicked"
        /\ panic_msg = LengthMismatchMsg

\* the slices differ in length and the slots repeat
C5_Witness ==
    /\ ctor = "new_with_slots"
    /\ Len(source) # Len(slots)
    /\ HasDuplicate(slots)
    /\ panic_msg = LengthMismatchMsg

\* C6 (empty input): a constructor given no pair succeeds with the range
\* start = end = 0, an empty table, width 0, count 0, and get absent for
\* every slot, 0 included.
C6_EmptyInput ==
    (ctor # "none" /\ Len(source) = 0 /\ Len(slots) = 0) =>
        /\ pc = "constructed"
        /\ range.start = 0 /\ range.end = 0
        /\ Len(storages) = 0
        /\ range_width(self, overflow_checks) = [panic |-> NoPanic, ret |-> 0]
        /\ slot_count = 0
        /\ \A s \in Slots : get(self, s) = [panic |-> NoPanic, ret |-> None]
        /\ last_call.op = "get" => last_call.ret = None
        /\ last_call.op \in {"range_width", "slot_count"} => last_call.ret = 0

\* get(0) on the view of the empty input returned absent
C6_Witness ==
    /\ ctor = "new_with_slots"
    /\ source = <<>> /\ slots = <<>>
    /\ pc = "constructed"
    /\ last_call.op = "get" /\ last_call.arg = 0
    /\ last_call.ret = None

\* C7 (width and table length): on every constructed view range.start is at
\* most range.end, the table has range.end - range.start entries, and
\* range_width returns that number without underflow, whatever the build.
C7_WidthAndLength ==
    /\ pc = "constructed" =>
          /\ range.start <= range.end
          /\ Len(storages) = range.end - range.start
          /\ \A oc \in BOOLEAN :
                range_width(self, oc) =
                    [panic |-> NoPanic, ret |-> range.end - range.start]
    /\ last_call.op = "range_width" =>
          /\ last_call.panic = NoPanic
          /\ last_call.ret = range.end - range.start
          /\ last_call.ret = Len(storages)

\* range_width was called on a view with holes
C7_Witness ==
    /\ pc = "constructed"
    /\ last_call.op = "range_width"
    /\ last_call.ret = Len(storages)
    /\ last_call.ret > slot_count
    /\ slot_count > 1

\* C8 (count and occupancy): on every constructed view slot_count is the
\* number of input pairs and the number of occupied table entries, source[i]
\* is referenced by the entry at slots[i] - range.start and by no other,
\* every occupied entry references a supplied container, and slot_count is
\* at most the width of the range.
C8_CountAndOccupancy ==
    pc = "constructed" =>
        /\ slot_count = Len(source)
        /\ slot_count = Cardinality(Occupied)
        /\ \A i \in 1 .. Len(source) :
              \A k \in 1 .. Len(storages) :
                  (storages[k] = Some(i)) <=> (k = slots[i] - range.start + 1)
        /\ \A i \in 1 .. Len(source) :
              slots[i] - range.start + 1 \in 1 .. Len(storages)
        /\ \A k \in Occupied : \E i \in 1 .. Len(source) : storages[k] = Some(i)
        /\ slot_count <= range.end - range.start

\* C9 (derived slots): new fails with "SnapshotStorage.is_empty()" whenever
\* a container of source is empty, whatever the slots of the others;
\* otherwise it yields the view, or the failure, of new_with_slots called
\* with the slot of the first entry of every container.
C9_DerivedSlots ==
    ctor = "new" =>
        IF \E i \in 1 .. Len(source) : Len(source[i]) = 0
        THEN pc = "panicked" /\ panic_msg = EmptyContainerMsg
        ELSE LET e == new_with_slots(source, FirstSlots(source), overflow_checks)
             IN  IF e.panic # NoPanic
                 THEN pc = "panicked" /\ panic_msg = e.panic
                 ELSE /\ pc = "constructed"
                      /\ range = e.range
                      /\ storages = e.storages
                      /\ slot_count = e.slot_count

\* new refused an empty container that came after two containers of the
\* same slot
C9_Witness ==
    /\ ctor = "new"
    /\ panic_msg = EmptyContainerMsg
    /\ \E i, j, k \in 1 .. Len(source) :
          /\ i < j /\ j < k
          /\ Len(source[i]) > 0 /\ Len(source[j]) > 0 /\ Len(source[k]) = 0
          /\ source[i][1] = source[j][1]

\* C10 (immutability): no query changes the range, the table or the count
\* of a constructed view, no query fails, and every answer is the one the
\* freshly constructed view gives for that argument.
C10_Immutable ==
    [][pc = "constructed" =>
          LET fresh == Fresh IN
          /\ range' = range /\ storages' = storages /\ slot_count' = slot_count
          /\ pc' = "constructed"
          /\ last_call'.op = "get" =>
                last_call'.ret = get(fresh, last_call'.arg).ret
          /\ last_call'.op = "range_width" =>
                last_call'.ret = fresh.range.end - fresh.range.start
          /\ last_call'.op = "range" => last_call'.ret = fresh.range
          /\ last_call'.op = "slot_count" => last_call'.ret = fresh.slot_count
      ]_vars

\* a get found a container on a view of several
C10_Witness ==
    /\ pc = "constructed"
    /\ last_call.op = "get"
    /\ last_call.ret # None
    /\ slot_count > 1
    /\ Len(storages) > slot_count
=============================================================================
